---- MODULE Spec2Model ----
(***************************************************************************)
(* webone: a contact book over one SQLite table.                           *)
(*                                                                         *)
(* Contact (the model, src/contacts.rs) issues the SQL statements;         *)
(* the axum handlers (src/main.rs) combine them into requests.             *)
(* The table is modelled as the set of its rows.  A statement is assumed   *)
(* to reach the storage engine: connectivity failures (sqlx::Error other   *)
(* than RowNotFound) are outside the model.                                *)
(***************************************************************************)
EXTENDS Integers, Sequences, FiniteSets, TLC

VARIABLES db, now, resp, inflight

vars == <<db, now, resp, inflight>>

(***************************************************************************)
(* Bounds of the model.                                                    *)
(***************************************************************************)
\* largest id the store hands out
MaxId == 2
\* last value of the storage engine's clock (CURRENT_TIMESTAMP)
MaxClock == 1
\* largest page number the store operations are evaluated with
MaxPage == 3
\* largest per_page the store operations are evaluated with
MaxPerPage == 2

\* const PER_PAGE: i64 = 10;
PER_PAGE == 10

(***************************************************************************)
(* Strings.  Names are sequences of characters, because search looks       *)
(* inside them; emails and phone numbers are only compared and tested for  *)
(* emptiness, so they stay TLA+ strings.  Option<T> is a set with at most  *)
(* one element: {} is None, {x} is Some(x).                                *)
(***************************************************************************)
Terms == { <<>>, <<"a">>, <<"_">> }

None == {}
Some(x) == {x}
Optional(S) == {None} \cup {Some(x) : x \in S}

\* struct NewContact (the errors payload is only used for re-rendering)
Form(first_name, phone_number, email) ==
    [first_name |-> first_name, last_name |-> <<"c">>,
     phone_number |-> phone_number, email |-> email]

\* the forms submitted: with and without an email, with and without a phone
Emails == { "", "e1" }
Phones == { "", "p1" }
NewContact == { Form(<<"a", "b">>, "p1", "e1"), Form(<<"B">>, "", ""),
               Form(<<"a", "b">>, "", "e1"), Form(<<"B">>, "p1", "") }

(***************************************************************************)
(* i64, as four 16-bit limbs in two's complement, least significant first. *)
(* TLC's integers are 32 bits wide; page and offset are 64.                *)
(***************************************************************************)
Limb == 2^16

I64(n) == IF n >= 0 THEN <<n, 0, 0, 0>>
                    ELSE <<Limb + n, Limb - 1, Limb - 1, Limb - 1>>

IsNegative(x) == x[4] >= Limb \div 2

\* x - 1, wrapped; overflow is what the checked (debug) arithmetic panics on
I64SubOne(x) ==
    LET b1 == IF x[1] = 0 THEN 1 ELSE 0
        b2 == IF b1 = 1 /\ x[2] = 0 THEN 1 ELSE 0
        b3 == IF b2 = 1 /\ x[3] = 0 THEN 1 ELSE 0
        r  == << (x[1] + Limb - 1) % Limb,
                 (x[2] + Limb - b1) % Limb,
                 (x[3] + Limb - b2) % Limb,
                 (x[4] + Limb - b3) % Limb >>
    IN [value |-> r, overflow |-> IsNegative(x) /\ ~IsNegative(r)]

\* x * k for 0 < k < 2^15, wrapped
I64MulSmall(x, k) ==
    LET p1 == x[1] * k
        p2 == x[2] * k + (p1 \div Limb)
        p3 == x[3] * k + (p2 \div Limb)
        p4 == x[4] * k + (p3 \div Limb)
        r  == << p1 % Limb, p2 % Limb, p3 % Limb, p4 % Limb >>
        carry == p4 \div Limb
    IN [value |-> r,
        overflow |-> IF IsNegative(x)
                       THEN ~(carry = k - 1 /\ IsNegative(r))
                       ELSE ~(carry = 0 /\ ~IsNegative(r))]

\* The number of rows an OFFSET skips: SQLite reads a negative OFFSET as 0.
\* An offset beyond 2^16 is beyond every table of the model.
OffsetRows(x) ==
    IF IsNegative(x) THEN 0
    ELSE IF x[2] = 0 /\ x[3] = 0 /\ x[4] = 0 THEN x[1]
    ELSE Limb

\* a page number no table reaches, whose offset at PER_PAGE leaves i64
HugePage == <<52430, 52428, 52428, 3276>>

\* the page numbers requested
Pages == { I64(1), I64(2), HugePage }

(***************************************************************************)
(* Rows and result sets.                                                   *)
(***************************************************************************)
Ids == 1..MaxId

RECURSIVE OrderById(_)
OrderById(rows) ==
    IF rows = {} THEN <<>>
    ELSE LET first == CHOOSE r \in rows : \A o \in rows : r.id <= o.id
         IN <<first>> \o OrderById(rows \ {first})

\* every order in which the engine may return the rows of an unordered SELECT
RECURSIVE AnyOrder(_)
AnyOrder(rows) ==
    IF rows = {} THEN { <<>> }
    ELSE UNION { { <<r>> \o s : s \in AnyOrder(rows \ {r}) } : r \in rows }

\* LIMIT limit OFFSET skip, for limit > 0
LimitOffset(s, limit, skip) ==
    IF skip >= Len(s) THEN <<>>
    ELSE SubSeq(s, skip + 1, IF skip + limit < Len(s) THEN skip + limit ELSE Len(s))

Lower(c) == IF c = "A" THEN "a" ELSE IF c = "B" THEN "b" ELSE c

\* SQLite's LIKE: % is any run of characters, _ any one character, letters
\* compare without case; no ESCAPE is given
RECURSIVE Like(_, _)
Like(s, pattern) ==
    IF pattern = <<>> THEN s = <<>>
    ELSE IF Head(pattern) = "%"
         THEN Like(s, Tail(pattern)) \/ (s # <<>> /\ Like(Tail(s), pattern))
    ELSE /\ s # <<>>
         /\ (Head(pattern) = "_" \/ Lower(Head(pattern)) = Lower(Head(s)))
         /\ Like(Tail(s), Tail(pattern))

(***************************************************************************)
(* Contact: the statements of src/contacts.rs.                             *)
(***************************************************************************)
\* the id the engine gives an inserted row: one past the largest rowid
NextRowId(table) ==
    IF table = {} THEN 1
    ELSE (CHOOSE r \in table : \A o \in table : o.id <= r.id).id + 1

\* Contact::update_from
update_from(contact, new) ==
    [contact EXCEPT !.first_name = new.first_name,
                    !.last_name = new.last_name,
                    !.phone_number = new.phone_number,
                    !.email = new.email]

\* the row INSERT ... RETURNING * yields
inserted(table, new, clock) ==
    [id |-> NextRowId(table),
     first_name |-> new.first_name,
     last_name |-> new.last_name,
     phone_number |-> new.phone_number,
     email |-> new.email,
     created_at |-> clock]

\* create with email and phone_number bound to each other's column
create_swapped(table, new, clock) ==
    table \cup { [inserted(table, new, clock) EXCEPT !.email = new.phone_number,
                                                    !.phone_number = new.email] }

\* create that inserts nothing when the email or the phone is already stored
create_if_absent(table, new, clock) ==
    IF (\E r \in table : r.email = new.email \/ r.phone_number = new.phone_number)
      THEN table
      ELSE table \cup { inserted(table, new, clock) }

\* Contact::create: the table after the INSERT
create(table, new, clock) == table \cup { inserted(table, new, clock) }

\* update without its WHERE clause
update_every_row(table, contact) ==
    { [r EXCEPT !.first_name = contact.first_name,
                !.last_name = contact.last_name,
                !.phone_number = contact.phone_number,
                !.email = contact.email] : r \in table }

\* Contact::update: UPDATE ... SET the four fields WHERE id = self.id
update(table, contact) ==
    { IF r.id = contact.id
        THEN [r EXCEPT !.first_name = contact.first_name,
                       !.last_name = contact.last_name,
                       !.phone_number = contact.phone_number,
                       !.email = contact.email]
        ELSE r : r \in table }

\* delete with WHERE id >= ?
delete_from(table, id) == { r \in table : r.id < id }

\* Contact::delete: DELETE FROM contacts WHERE id = ?
delete(table, id) == { r \in table : r.id # id }

\* Contact::find_by_id: fetch_one; None stands for Err(RowNotFound)
find_by_id(table, id) == { r \in table : r.id = id }

\* let offset = (page - 1) * per_page;
offset(page, per_page) ==
    LET d == I64SubOne(page)
        m == I64MulSmall(d.value, per_page)
    IN [value |-> m.value, overflow |-> d.overflow \/ m.overflow]

Panicked == [panic |-> TRUE, rows |-> <<>>]
Fetched(rows) == [panic |-> FALSE, rows |-> rows]

\* Contact::get_all.  checks: the build has overflow checks (a debug build
\* panics on an overflowing offset, a release build wraps it).
get_all(table, page, per_page, checks) ==
    LET off == offset(page, per_page)
    IN IF checks /\ off.overflow THEN Panicked
       ELSE Fetched(LimitOffset(OrderById(table), per_page, OffsetRows(off.value)))

\* WHERE first_name LIKE ? OR last_name LIKE ?, with pattern = %search%
matches(r, term) ==
    LET pattern == <<"%">> \o term \o <<"%">>
    IN Like(r.first_name, pattern) \/ Like(r.last_name, pattern)

\* Contact::search: the statement has no ORDER BY, so the engine may return
\* the matching rows in any order; the set of results it may produce.
search(table, term, page, per_page, checks) ==
    LET off == offset(page, per_page)
        hits == { r \in table : matches(r, term) }
    IN IF checks /\ off.overflow THEN { Panicked }
       ELSE { Fetched(LimitOffset(s, per_page, OffsetRows(off.value))) :
                s \in AnyOrder(hits) }

\* Contact::validate_email: SELECT EXISTS(... where email = ?)
validate_email(table, email) == \E r \in table : r.email = email

\* Contact::validate_phone: SELECT EXISTS(... where phone_number = ?)
validate_phone(table, phone_number) ==
    \E r \in table : r.phone_number = phone_number

(***************************************************************************)
(* The handlers of src/main.rs.  resp is the response to the last request: *)
(* the handler, its inputs, what it answered and, for a handler that       *)
(* writes, the table it found (pre).                                       *)
(***************************************************************************)
ButtonDisabled == FALSE
ButtonEnabled == TRUE

\* validate_input that looks the phone up only when the email is free
validate_input_short_circuit(table, email, phone_number) ==
    LET email_checked == \E e \in email : e # ""
        email_exists == \E e \in email : e # "" /\ validate_email(table, e)
        phone_checked == ~email_exists /\ \E p \in phone_number : p # ""
        phone_exists == ~email_exists /\
                        \E p \in phone_number : p # "" /\ validate_phone(table, p)
    IN [email_checked |-> email_checked, phone_checked |-> phone_checked,
        email_exists |-> email_exists, phone_exists |-> phone_exists,
        error_msg |-> IF email_exists
                        THEN "This email already exists in your contacts"
                      ELSE IF phone_exists
                        THEN "This phone number already exists in your contacts"
                      ELSE "",
        allowed |-> ~email_exists /\ ~phone_exists]

\* validate_input: the checks it runs and the (error_msg, button_html) it renders
validate_input(table, email, phone_number) ==
    LET email_checked == \E e \in email : e # ""
        phone_checked == \E p \in phone_number : p # ""
        email_exists == \E e \in email : e # "" /\ validate_email(table, e)
        phone_exists == \E p \in phone_number : p # "" /\ validate_phone(table, p)
        rendered ==
            IF email_exists /\ phone_exists
              THEN <<"Email and phone number already exist in your contacts", ButtonDisabled>>
            ELSE IF email_exists
              THEN <<"This email already exists in your contacts", ButtonDisabled>>
            ELSE IF phone_exists
              THEN <<"This phone number already exists in your contacts", ButtonDisabled>>
            ELSE <<"", ButtonEnabled>>
    IN [email_checked |-> email_checked, phone_checked |-> phone_checked,
        email_exists |-> email_exists, phone_exists |-> phone_exists,
        error_msg |-> rendered[1], allowed |-> rendered[2]]

\* post_new_contact's test: if valid_email || valid_phone { error } else { create }
rejects(table, new) ==
    LET valid_email == validate_email(table, new.email)
        valid_phone == validate_phone(table, new.phone_number)
    IN valid_email \/ valid_phone

\* POST /contacts/new
post_new_contact ==
    \E new \in NewContact :
        /\ IF rejects(db, new)
             THEN /\ db' = db
                  /\ resp' = [op |-> "post_new_contact", new |-> new,
                              saved |-> FALSE, pre |-> db]
             ELSE /\ NextRowId(db) <= MaxId
                  /\ db' = create(db, new, now)
                  /\ resp' = [op |-> "post_new_contact", new |-> new,
                              saved |-> TRUE, pre |-> db]
        /\ UNCHANGED <<now, inflight>>

\* POST /contacts/{id}/edit
post_edit_contact ==
    \E id \in Ids, new \in NewContact :
        LET found == find_by_id(db, id)
        IN /\ IF found = None
                THEN /\ db' = db
                     /\ resp' = [op |-> "post_edit_contact", id |-> id, new |-> new,
                                 ok |-> FALSE, pre |-> db]
                ELSE LET contact == update_from(CHOOSE r \in found : TRUE, new)
                     IN /\ db' = update(db, contact)
                        /\ resp' = [op |-> "post_edit_contact", id |-> id, new |-> new,
                                    ok |-> TRUE, pre |-> db]
           /\ UNCHANGED <<now, inflight>>

\* DELETE /contacts/{id}
delete_contact ==
    \E id \in Ids :
        /\ db' = delete(db, id)
        /\ resp' = [op |-> "delete_contact", id |-> id, ok |-> TRUE, pre |-> db]
        /\ UNCHANGED <<now, inflight>>

\* GET /contacts/{id}
show_contact ==
    \E id \in Ids :
        /\ resp' = [op |-> "show_contact", id |-> id, contact |-> find_by_id(db, id)]
        /\ UNCHANGED <<db, now, inflight>>

\* GET /contacts?q=..&page=..  The response is one the build and the engine
\* can produce: with or without overflow checks, in any order an unordered
\* SELECT allows.
contacts ==
    \E q \in Optional(Terms), p \in Optional(Pages) :
        LET page == IF p = None THEN I64(1) ELSE CHOOSE x \in p : TRUE
            outcomes ==
                UNION { IF q = None
                          THEN { get_all(db, page, PER_PAGE, checks) }
                          ELSE search(db, CHOOSE t \in q : TRUE, page, PER_PAGE, checks) :
                        checks \in BOOLEAN }
        IN /\ \E out \in outcomes :
                  resp' = [op |-> "contacts", q |-> q, page |-> page, out |-> out]
           /\ UNCHANGED <<db, now, inflight>>

\* GET /contacts/validate?email=..&phone_number=..
validate ==
    \E email \in Optional(Emails), phone_number \in Optional(Phones) :
        /\ resp' = [op |-> "validate_input", email |-> email,
                    phone_number |-> phone_number,
                    out |-> validate_input(db, email, phone_number)]
        /\ UNCHANGED <<db, now, inflight>>

\* the storage engine's clock advances between requests
Tick ==
    /\ now < MaxClock
    /\ now' = now + 1
    /\ UNCHANGED <<db, resp, inflight>>

\* the requests the server works on at the same time
Requests == { 1, 2 }

NoRequest == [pc |-> "idle"]

Init ==
    /\ db = {}
    /\ now = 0
    /\ resp = [op |-> "none"]
    /\ inflight = [r \in Requests |-> NoRequest]

\* requests served one at a time
Next ==
    \/ post_new_contact
    \/ post_edit_contact
    \/ delete_contact
    \/ show_contact
    \/ contacts
    \/ validate
    \/ Tick

Spec == Init /\ [][Next]_vars

(***************************************************************************)
(* post_new_contact served concurrently: each .await is a round trip to    *)
(* the store, and other requests run between the round trips.              *)
(***************************************************************************)
\* the Form extractor hands the handler a NewContact
receive(r) ==
    \E new \in NewContact :
        /\ inflight[r].pc = "idle"
        /\ inflight' = [inflight EXCEPT ![r] = [pc |-> "validate_email", new |-> new]]
        /\ UNCHANGED <<db, now, resp>>

\* let valid_email = Contact::validate_email(..).await?;
await_validate_email(r) ==
    /\ inflight[r].pc = "validate_email"
    /\ inflight' = [inflight EXCEPT ![r] =
           [pc |-> "validate_phone", new |-> inflight[r].new,
            valid_email |-> validate_email(db, inflight[r].new.email)]]
    /\ UNCHANGED <<db, now, resp>>

\* let valid_phone = Contact::validate_phone(..).await?;
await_validate_phone(r) ==
    /\ inflight[r].pc = "validate_phone"
    /\ inflight' = [inflight EXCEPT ![r] =
           [pc |-> "decide", new |-> inflight[r].new,
            valid_email |-> inflight[r].valid_email,
            valid_phone |-> validate_phone(db, inflight[r].new.phone_number)]]
    /\ UNCHANGED <<db, now, resp>>

\* if valid_email || valid_phone { error page } else { Contact::create(..).await? }
await_create(r) ==
    /\ inflight[r].pc = "decide"
    /\ IF inflight[r].valid_email \/ inflight[r].valid_phone
         THEN /\ db' = db
              /\ inflight' = [inflight EXCEPT ![r] =
                     [pc |-> "rejected", new |-> inflight[r].new]]
         ELSE /\ NextRowId(db) <= MaxId
              /\ db' = create(db, inflight[r].new, now)
              /\ inflight' = [inflight EXCEPT ![r] =
                     [pc |-> "saved", new |-> inflight[r].new]]
    /\ UNCHANGED <<now, resp>>

\* the response is sent
respond(r) ==
    /\ inflight[r].pc \in { "rejected", "saved" }
    /\ inflight' = [inflight EXCEPT ![r] = NoRequest]
    /\ UNCHANGED <<db, now, resp>>

NextConc ==
    \E r \in Requests :
        \/ receive(r)
        \/ await_validate_email(r)
        \/ await_validate_phone(r)
        \/ await_create(r)
        \/ respond(r)

SpecConc == Init /\ [][NextConc]_vars

(***************************************************************************)
(* What the claims speak of, stated apart from the code's own operators.   *)
(***************************************************************************)
Min(a, b) == IF a < b THEN a ELSE b

\* the fields of a row that a form carries
FormOf(r) == [first_name |-> r.first_name, last_name |-> r.last_name,
              phone_number |-> r.phone_number, email |-> r.email]

\* page p (counted from 1) of n rows of the sequence s
PageOf(s, p, n) ==
    LET skip == (p - 1) * n
        len  == IF skip >= Len(s) THEN 0 ELSE Min(n, Len(s) - skip)
    IN [i \in 1..len |-> s[skip + i]]

\* the page an i64 page number >= 1 asks for: past 2^16 no table has rows
PageOfI64(s, page, n) ==
    IF page[2] = 0 /\ page[3] = 0 /\ page[4] = 0 THEN PageOf(s, page[1], n) ELSE <<>>

\* term occurs in s, letters compared without case
Contains(s, term) ==
    \E i \in 0..(Len(s) - Len(term)) :
        \A j \in 1..Len(term) : Lower(s[i + j]) = Lower(term[j])

NameContains(r, term) == Contains(r.first_name, term) \/ Contains(r.last_name, term)

\* C1: no two stored contacts share a non-empty email, nor a non-empty phone
\* number, after any sequence of creates, edits and deletes served one at a time.
C1_UniqueEmailAndPhone ==
    \A a \in db, b \in db :
        a # b => /\ (a.email # "" => a.email # b.email)
                 /\ (a.phone_number # "" => a.phone_number # b.phone_number)

\* C2: a create submission saves exactly when validate(email, phone), evaluated
\* on the table the submission found, allows it; a rejected submission leaves
\* the table as it was and an accepted one adds one contact with the four fields.
C2_CreateIffValidateAllows ==
    resp.op = "post_new_contact" =>
        /\ resp.saved = validate_input(resp.pre, Some(resp.new.email),
                                       Some(resp.new.phone_number)).allowed
        /\ ~resp.saved => db = resp.pre
        /\ resp.saved => \E r \in db : /\ r \notin resp.pre
                                       /\ FormOf(r) = resp.new
                                       /\ db = resp.pre \cup {r}

\* C3: validate never reports a collision for an absent or empty field; for the
\* others its answer is the decision table over (email_exists, phone_exists);
\* both existence checks run whenever both fields are non-empty.
C3_DecisionTable ==
    resp.op = "validate_input" =>
        LET given_email == resp.email # None /\ resp.email # Some("")
            given_phone == resp.phone_number # None /\ resp.phone_number # Some("")
            email_exists == given_email /\ \E r \in db : Some(r.email) = resp.email
            phone_exists == given_phone /\ \E r \in db : Some(r.phone_number) = resp.phone_number
            out == resp.out
        IN /\ ~given_email =>
                out.error_msg \notin { "This email already exists in your contacts",
                                       "Email and phone number already exist in your contacts" }
           /\ ~given_phone =>
                out.error_msg \notin { "This phone number already exists in your contacts",
                                       "Email and phone number already exist in your contacts" }
           /\ (email_exists /\ phone_exists) =>
                /\ out.error_msg = "Email and phone number already exist in your contacts"
                /\ ~out.allowed
           /\ (email_exists /\ ~phone_exists) =>
                /\ out.error_msg = "This email already exists in your contacts"
                /\ ~out.allowed
           /\ (~email_exists /\ phone_exists) =>
                /\ out.error_msg = "This phone number already exists in your contacts"
                /\ ~out.allowed
           /\ (~email_exists /\ ~phone_exists) =>
                /\ out.error_msg = ""
                /\ out.allowed
           /\ (given_email /\ given_phone) => (out.email_checked /\ out.phone_checked)

\* C3 witness: both fields were given, both were looked up and both collide
C3_BothConflictSeen ==
    /\ resp.op = "validate_input"
    /\ resp.out.email_checked /\ resp.out.phone_checked
    /\ resp.out.email_exists /\ resp.out.phone_exists
    /\ ~resp.out.allowed

\* C4: validating the email and phone that one stored contact already carries,
\* when no other contact carries them, answers no conflict, allowed.
C4_OwnValuesAllowed ==
    (/\ resp.op = "validate_input"
     /\ \E c \in db :
          /\ c.email # "" /\ c.phone_number # ""
          /\ resp.email = Some(c.email)
          /\ resp.phone_number = Some(c.phone_number)
          /\ \A o \in db \ {c} : o.email # c.email /\ o.phone_number # c.phone_number)
    => (resp.out.allowed /\ resp.out.error_msg = "")

\* C5: delete answers success whether or not the id is stored, removes no row
\* with another id, leaves find_by_id of that id not found, and a second delete
\* of the same id changes nothing more.
C5_DeleteIdempotent ==
    resp.op = "delete_contact" =>
        /\ resp.ok
        /\ db = { r \in resp.pre : r.id # resp.id }
        /\ find_by_id(db, resp.id) = None
        /\ delete(delete(resp.pre, resp.id), resp.id) = db

\* C5 witness: a stored contact was deleted and another contact remains
C5_DeletedOneOfSeveral ==
    /\ resp.op = "delete_contact"
    /\ \E r \in resp.pre : r.id = resp.id
    /\ db # {}

\* C6: after an edit, find_by_id returns the four submitted fields under the
\* original id and created_at and every other contact is as before; and no step
\* changes the created_at stored under an id.
C6_EditFrame ==
    /\ [](resp.op = "post_edit_contact" /\ resp.ok =>
            \E old \in resp.pre :
                /\ old.id = resp.id
                /\ \E r \in db :
                      /\ find_by_id(db, resp.id) = Some(r)
                      /\ FormOf(r) = resp.new
                      /\ r.id = old.id
                      /\ r.created_at = old.created_at
                      /\ db \ {r} = resp.pre \ {old})
    /\ [][\A a \in db, b \in db' : a.id = b.id => a.created_at = b.created_at]_vars

\* C6 witness: a contact created earlier was edited to other values while
\* another contact was stored
C6_EditedOneOfSeveral ==
    /\ resp.op = "post_edit_contact" /\ resp.ok
    /\ \E old \in resp.pre : old.id = resp.id /\ FormOf(old) # resp.new
                             /\ old.created_at < now
    /\ \E r \in db : r.id # resp.id

\* C7: for page >= 1 and per_page > 0, list returns positions (page-1)*per_page
\* to page*per_page - 1 of the contacts in ascending id, so list(1,N) followed
\* by list(2,N) is list(1,2N).
C7_ListIsPageOfIdOrder ==
    /\ \A p \in 1..MaxPage, n \in 1..MaxPerPage, checks \in BOOLEAN :
          get_all(db, I64(p), n, checks) = Fetched(PageOf(OrderById(db), p, n))
    /\ \A n \in 1..MaxPerPage, checks \in BOOLEAN :
          get_all(db, I64(1), n, checks).rows \o get_all(db, I64(2), n, checks).rows
            = get_all(db, I64(1), 2 * n, checks).rows
    /\ (resp.op = "contacts" /\ resp.q = None) =>
          resp.out = Fetched(PageOfI64(OrderById(db), resp.page, PER_PAGE))

\* C7, for the page numbers whose offset stays within i64
C7_ListWithoutOverflow ==
    /\ \A p \in 1..MaxPage, n \in 1..MaxPerPage, checks \in BOOLEAN :
          get_all(db, I64(p), n, checks) = Fetched(PageOf(OrderById(db), p, n))
    /\ \A n \in 1..MaxPerPage, checks \in BOOLEAN :
          get_all(db, I64(1), n, checks).rows \o get_all(db, I64(2), n, checks).rows
            = get_all(db, I64(1), 2 * n, checks).rows
    /\ (resp.op = "contacts" /\ resp.q = None /\ resp.page # HugePage) =>
          resp.out = Fetched(PageOfI64(OrderById(db), resp.page, PER_PAGE))

\* C8: search returns the requested page of the contacts whose first or last
\* name contains the term, in ascending id; with the empty term, what list
\* returns.  (Stated for the page numbers whose offset stays within i64.)
C8_SearchIsPageOfMatches ==
    /\ \A t \in Terms, p \in 1..MaxPage, n \in 1..MaxPerPage, checks \in BOOLEAN :
          search(db, t, I64(p), n, checks) =
            { Fetched(PageOf(OrderById({ r \in db : NameContains(r, t) }), p, n)) }
    /\ \A p \in 1..MaxPage, n \in 1..MaxPerPage, checks \in BOOLEAN :
          search(db, <<>>, I64(p), n, checks) = { get_all(db, I64(p), n, checks) }

\* C9: email_exists(E) is false for every E no stored contact carries and true
\* after a successful create with email E, whatever page the contact is on;
\* likewise phone_exists.
C9_ExistsIffStored ==
    /\ \A e \in Emails : (\A r \in db : r.email # e) => ~validate_email(db, e)
    /\ \A ph \in Phones : (\A r \in db : r.phone_number # ph) => ~validate_phone(db, ph)
    /\ (resp.op = "post_new_contact" /\ resp.saved) =>
          /\ validate_email(db, resp.new.email)
          /\ validate_phone(db, resp.new.phone_number)
    /\ \A r \in db : validate_email(db, r.email) /\ validate_phone(db, r.phone_number)

\* C9 witness: a contact with an email and a phone was created behind another,
\* so that it is not on the first page of one row
C9_CreatedBeyondFirstPage ==
    /\ resp.op = "post_new_contact" /\ resp.saved
    /\ resp.new.email # "" /\ resp.new.phone_number # ""
    /\ \E r \in db : /\ FormOf(r) = resp.new
                     /\ r \notin resp.pre
                     /\ get_all(db, I64(1), 1, FALSE).rows # <<r>>

\* C10: a create whose two existence checks both answered false inserts its
\* contact, whatever other requests wrote after the checks; so two concurrent
\* creates with one new email can both insert.
C10_CheckedThenInserted ==
    [][\A r \in Requests :
          (inflight[r].pc = "decide" /\ inflight'[r].pc = "saved") =>
              /\ ~inflight[r].valid_email /\ ~inflight[r].valid_phone
              /\ Cardinality(db') = Cardinality(db) + 1
              /\ \E row \in db' \ db : FormOf(row) = inflight[r].new]_vars

\* C10 witness: both requests carried the same email, stored by nobody before,
\* both were saved, and two contacts share it
C10_BothInserted ==
    /\ \A r \in Requests : inflight[r].pc = "saved"
    /\ inflight[1].new.email # ""
    /\ inflight[1].new.email = inflight[2].new.email
    /\ \E a \in db, b \in db : a # b /\ a.email = inflight[1].new.email
                               /\ b.email = a.email
    /\ Cardinality(db) = 2

====
